---- MODULE Spec2Model ----
(***************************************************************************)
(* Model of tcorr_scene/tcorr_export_scene_by_wrs2.py: main(), the driver  *)
(* that enumerates WRS2 tiles, lists the Landsat scenes of each tile and   *)
(* builds one Tcorr export task per scene, after checking the scene        *)
(* against the asset list and the task list fetched before the loop.       *)
(*                                                                         *)
(* Strings are modelled by their components: an image id is the tuple of   *)
(* its '/'-separated parts, the last part (the scene id) the tuple of its  *)
(* '_'-separated parts, and a run of digits the tuple of its digits.       *)
(* A date string 'YYYY-MM-DD' is the number YYYYMMDD; a datetime is that   *)
(* number times TicksPerDay plus the time of day in ticks.                 *)
(***************************************************************************)
EXTENDS Integers, Sequences, FiniteSets, TLC

\* ---------------------------------------------------------------- bounds
\* most tiles the tile catalog returns
MaxTiles == 2
\* most image ids one tile's scene list holds
MaxList == 2
\* resolution of datetime.today(): ticks per day
TicksPerDay == 2
\* pixels of the raster grid
NumPixels == 2

\* ------------------------------------------------------------- utilities
None == "None"

Range(s) == {s[i] : i \in 1..Len(s)}

Last(s) == s[Len(s)]

RECURSIVE SeqsUpTo(_, _)
\* all sequences over S of length at most n
SeqsUpTo(S, n) ==
    IF n = 0 THEN {<<>>}
    ELSE LET shorter == SeqsUpTo(S, n - 1)
         IN  shorter \cup {Append(s, x) : s \in shorter, x \in S}

RECURSIVE ToInt(_)
\* int() of a run of digits
ToInt(ds) ==
    IF Len(ds) = 0 THEN 0
    ELSE 10 * ToInt(SubSeq(ds, 1, Len(ds) - 1)) + ds[Len(ds)]

\* ------------------------------------------------------ dates, datetimes
\* datetime.datetime.strptime(s, '%Y-%m-%d') of a well-formed date string
Strptime(date) == date * TicksPerDay

\* dt.strftime('%Y-%m-%d')
Strftime(dt) == dt \div TicksPerDay

\* datetime.datetime(1984, 3, 23)
LandsatStart == 19840323

DaysInMonth(y, m) ==
    IF m \in {4, 6, 9, 11} THEN 30
    ELSE IF m # 2 THEN 31
    ELSE IF (y % 4 = 0 /\ y % 100 # 0) \/ y % 400 = 0 THEN 29
    ELSE 28

\* the alternatives of strptime's pattern for %m, in the order the regular
\* expression tries them: 1[0-2] | 0[1-9] | [1-9]; each is <<value, next>>
MonthAlts(ds, p) ==
    LET two == p + 1 <= Len(ds)
        a == ds[p]
    IN  (IF two /\ a = 1 /\ ds[p + 1] \in 0..2
            THEN <<<<10 + ds[p + 1], p + 2>>>> ELSE <<>>)
        \o (IF two /\ a = 0 /\ ds[p + 1] \in 1..9
            THEN <<<<ds[p + 1], p + 2>>>> ELSE <<>>)
        \o (IF a \in 1..9 THEN <<<<a, p + 1>>>> ELSE <<>>)

\* the alternatives for %d: 3[0-1] | [1-2]\d | 0[1-9] | [1-9]
DayAlts(ds, p) ==
    LET two == p + 1 <= Len(ds)
        a == ds[p]
    IN  (IF two /\ a = 3 /\ ds[p + 1] \in 0..1
            THEN <<<<30 + ds[p + 1], p + 2>>>> ELSE <<>>)
        \o (IF two /\ a \in 1..2
            THEN <<<<10 * a + ds[p + 1], p + 2>>>> ELSE <<>>)
        \o (IF two /\ a = 0 /\ ds[p + 1] \in 1..9
            THEN <<<<ds[p + 1], p + 2>>>> ELSE <<>>)
        \o (IF a \in 1..9 THEN <<<<a, p + 1>>>> ELSE <<>>)

\* datetime.datetime.strptime(ds, '%Y%m%d') of a run of digits: the first
\* match of \d\d\d\d, %m, %d from the left (backtracking over the
\* alternatives), which must use up the whole string and be a real date;
\* the result is [err, dt]: err for ValueError, else the datetime dt
StrptimeYmd(ds) ==
    IF Len(ds) < 6 THEN [err |-> TRUE, dt |-> 0]
    ELSE
      LET y == ToInt(SubSeq(ds, 1, 4))
          ms == MonthAlts(ds, 5)
          \* month alternatives after which some day alternative matches
          ok == {i \in 1..Len(ms) :
                    ms[i][2] <= Len(ds) /\ Len(DayAlts(ds, ms[i][2])) > 0}
      IN  IF ok = {} THEN [err |-> TRUE, dt |-> 0]
          ELSE
            LET i == CHOOSE k \in ok : \A j \in ok : k <= j
                m == ms[i][1]
                day == DayAlts(ds, ms[i][2])[1]
            IN  IF day[2] # Len(ds) + 1 \/ y < 1 \/ day[1] > DaysInMonth(y, m)
                THEN [err |-> TRUE, dt |-> 0]
                ELSE [err |-> FALSE,
                      dt |-> (y * 10000 + m * 100 + day[1]) * TicksPerDay]

\* ------------------------------------------------------- names and ids
\* str.lower() on the names the model uses
Lower(s) ==
    CASE s = "DAYMET_MEDIAN_V2" -> "daymet_median_v2"
      [] s = "TOPOWX_MEDIAN_V0" -> "topowx_median_v0"
      [] s = "DAYMET_V3" -> "daymet_v3"
      [] OTHER -> s

\* 'MEDIAN' in tmax_name.upper()
HasMedian(s) ==
    Lower(s) \in {"daymet_median_v2", "topowx_median_v0"}

\* 'daymet' in tmax_name.lower()
HasDaymet(s) ==
    Lower(s) \in {"daymet_median_v2", "daymet_v3"}

\* '{}/{}_scene'.format(ini['EXPORT']['export_coll'], tmax_name.lower())
TcorrSceneCollId(export_coll, tmax_name) ==
    <<export_coll, Lower(tmax_name), "scene">>

\* ExportId without .lower()
ExportIdAsWritten(tmax_name, scene_id) ==
    <<"tcorr_scene", tmax_name, scene_id>>

\* export_id_fmt.format(product=tmax_name.lower(), scene_id=scene_id)
ExportId(tmax_name, scene_id) ==
    <<"tcorr_scene", Lower(tmax_name), scene_id>>

\* asset_id_fmt.format(coll_id=tcorr_scene_coll_id, scene_id=scene_id)
AssetId(coll_id, scene_id) ==
    <<coll_id, scene_id>>

\* image_id.split('/')[-1]
SceneId(image_id) == Last(image_id)

\* scene_id.split('_')[-2]
DatePart(scene_id) == scene_id[Len(scene_id) - 1]

\* the id Earth Engine gave the pending task with this description
TaskId(description) == <<"task", description>>

\* position of a string among the strings of image ids, in Python's order
StrRank(s) ==
    CASE s = "LANDSAT" -> 0
      [] s = "C01" -> 0
      [] s = "T1_TOA" -> 0
      [] s = "LC08" -> 1
      [] s = "LE07" -> 2
      [] OTHER -> 3

\* the image id as a run of numbers whose order is the strings' order
SortKey(image_id) ==
    LET scene == SceneId(image_id)
    IN  <<StrRank(image_id[1]), StrRank(image_id[2]), StrRank(image_id[3]),
          StrRank(image_id[4]), StrRank(scene[1])>> \o scene[2] \o scene[3]

RECURSIVE LexLess(_, _)
\* a < b for two runs of numbers
LexLess(a, b) ==
    IF Len(b) = 0 THEN FALSE
    ELSE IF Len(a) = 0 THEN TRUE
    ELSE IF a[1] # b[1] THEN a[1] < b[1]
    ELSE LexLess(Tail(a), Tail(b))

RECURSIVE Insert(_, _)
\* x put into the sorted list s, after the entries equal to it
Insert(x, s) ==
    IF Len(s) = 0 THEN <<x>>
    ELSE IF LexLess(SortKey(x), SortKey(s[1])) THEN <<x>> \o s
    ELSE <<s[1]>> \o Insert(x, Tail(s))

RECURSIVE SortAsc(_)
SortAsc(s) ==
    IF Len(s) = 0 THEN <<>>
    ELSE Insert(Last(s), SortAsc(SubSeq(s, 1, Len(s) - 1)))

Reverse(s) == [i \in 1..Len(s) |-> s[Len(s) + 1 - i]]

\* sorted(image_id_list, reverse=reverse_flag)
Sorted(image_id_list, reverse) ==
    IF reverse THEN Reverse(SortAsc(image_id_list))
    ELSE SortAsc(image_id_list)

\* ------------------------------------------------------------- rasters
\* A raster is a function from its valid (unmasked) pixels to their values.
Pixels == 1..NumPixels

\* image.multiply(k)
Multiply(img, k) == [p \in DOMAIN img |-> img[p] * k]

\* image.add(c)
Add(img, c) == [p \in DOMAIN img |-> img[p] + c]

\* image.unmask(v)
Unmask(img, v) == [p \in Pixels |-> IF p \in DOMAIN img THEN img[p] ELSE v]

\* image.updateMask(mask): a pixel stays valid where it was valid and the
\* mask is valid and not zero
UpdateMask(img, mask) ==
    [p \in {q \in DOMAIN img : q \in DOMAIN mask /\ mask[q] # 0} |-> img[p]]

\* image.updateMask(0)
UpdateMaskConst(img, m) == [p \in {q \in DOMAIN img : m # 0} |-> img[p]]

\* image.clip(geometry)
Clip(img, geometry) == [p \in DOMAIN img \cap geometry |-> img[p]]

\* ee.Dictionary(d).combine(defaults, overwrite=False)
Combine(d, defaults) ==
    [k \in DOMAIN d \cup DOMAIN defaults |->
        IF k \in DOMAIN d THEN d[k] ELSE defaults[k]]

\* int(math.ceil(abs(n / d))) for whole numbers, d > 0
CeilAbsDiv(n, d) ==
    LET a == IF n < 0 THEN -n ELSE n
    IN  (a + d - 1) \div d

\* ------------------------------------------------------------ the state
VARIABLES
    \* command line and INI file
    overwrite_flag, reverse_flag, ini,
    \* the world outside: the clock and what Earth Engine holds
    clock,            \* datetime.datetime.today(); it moves only between
                      \* the two reads of lines 267 and 270
    ee_collections,   \* ids of the image collections that exist
    ee_assets,        \* ids of the image assets that exist
    ee_tasks,         \* the pending tasks, each [id, description]
    landsat,          \* Landsat image id -> [tcorr_stats, geometry]
    tmax_first,       \* first image of the Tmax collection: band 0, info
    \* main()'s locals
    pc, tcorr_scene_coll_id, tmax_mask, export_crs, export_geo, export_shape,
    asset_list, tasks, start_date, end_date, wrs2_info, tile_i, image_queue,
    task,             \* the export task built last, as a list of 0 or 1
    \* what the run did, in order
    calls,            \* the calls made to Earth Engine
    scenes_seen       \* the iterations of the scene loop

config == <<overwrite_flag, reverse_flag, ini>>
remote == <<ee_collections, ee_assets, ee_tasks>>
world == <<landsat, tmax_first>>
setup == <<tcorr_scene_coll_id, tmax_mask, export_crs, export_geo, export_shape>>
snapshot == <<asset_list, tasks>>
dates == <<start_date, end_date>>
loop == <<wrs2_info, tile_i, image_queue>>
vars == <<config, clock, remote, world, pc, setup, snapshot, dates, loop,
          task, calls, scenes_seen>>

\* every WRS2 tile of the catalog, in the catalog's order: 'p044r033', ...
Wrs2Catalog == [k \in 1..MaxTiles |-> <<"p", 0, 4, 4, "r", 0, 3, 2 + k>>]

\* int(wrs2_tile[1:4])
Wrs2Path(wrs2_tile) == ToInt(SubSeq(wrs2_tile, 2, 4))

\* int(wrs2_tile[5:8])
Wrs2Row(wrs2_tile) == ToInt(SubSeq(wrs2_tile, 6, 8))

\* the entries of s at the positions in S, in order
RECURSIVE SubsequenceAt(_, _)
SubsequenceAt(s, S) ==
    IF S = {} THEN <<>>
    ELSE LET m == CHOOSE k \in S : \A j \in S : j <= k
         IN  Append(SubsequenceAt(s, S \ {m}), s[m])

\* Landsat image ids: 'LANDSAT/LC08/C01/T1_TOA/LC08_044033_20170716', ...
Landsat(sensor, pathrow, date) ==
    <<"LANDSAT", sensor, "C01", "T1_TOA", <<sensor, pathrow, date>>>>

\* a scene of path 44 row 33
ImageA == Landsat("LC08", <<0, 4, 4, 0, 3, 3>>, <<2, 0, 1, 7, 0, 7, 1, 6>>)

\* a scene of path 44 row 30
ImageB == Landsat("LC08", <<0, 4, 4, 0, 3, 0>>, <<2, 0, 1, 7, 0, 7, 1, 6>>)

\* an earlier scene of another sensor
ImageC == Landsat("LE07", <<0, 4, 4, 0, 3, 3>>, <<2, 0, 1, 7, 0, 1, 0, 1>>)

\* a later scene of the first sensor, same path and row
ImageD == Landsat("LC08", <<0, 4, 4, 0, 3, 3>>, <<2, 0, 1, 7, 0, 8, 0, 1>>)

\* the Tmax image's projection, as utils.get_info returns it
TmaxInfo ==
    [crs |-> "EPSG:4326",
     crs_transform |-> <<2000, 0, -180000, 0, -2000, 90000>>,
     dimensions |-> <<180, 90>>]

\* INI files: the values of the keys main() reads
\* (cell_size is a list: empty when the key is absent)
IniFile(tmax, start, end, cell) ==
    [tmax_source |-> tmax, export_coll |-> "projects/tcorr",
     start_date |-> start, end_date |-> end,
     min_pixel_count |-> 1000, cell_size |-> cell]

\* tcorr_stats results with every count and statistic present
FullStats(Counts, Tcorrs) ==
    {[tcorr_p5 |-> t, tcorr_count |-> c] : t \in Tcorrs, c \in Counts}

\* tcorr_stats results, with either key or both omitted
AnyStats(Counts, Tcorrs) ==
    FullStats(Counts, Tcorrs)
    \cup {[tcorr_p5 |-> t] : t \in Tcorrs}
    \cup {[tcorr_count |-> c] : c \in Counts}
    \cup {<<>>}

\* the state after the arguments are parsed, before main() runs
InitWith(Overwrites, Reverses, Inis, Clocks, Images, Stats, Geoms, Valids, Exists) ==
    /\ overwrite_flag \in Overwrites
    /\ reverse_flag \in Reverses
    /\ ini \in Inis
    /\ clock \in Clocks
    /\ landsat \in [Images -> [tcorr_stats : Stats, geometry : Geoms]]
    /\ tmax_first \in {[band |-> [p \in V |-> 300], info |-> TmaxInfo] :
                          V \in Valids}
    /\ \E exists \in Exists :
          LET coll == TcorrSceneCollId(ini.export_coll, ini.tmax_source)
          IN  /\ ee_collections = IF exists THEN {coll} ELSE {}
              /\ ee_assets \in
                    IF exists
                    THEN SUBSET {AssetId(coll, SceneId(i)) : i \in Images}
                    ELSE {{}}
    /\ ee_tasks \in SUBSET
          {[id |-> TaskId(d), description |-> d] :
              d \in {ExportId(ini.tmax_source, SceneId(i)) : i \in Images}}
    /\ pc = "setup"
    /\ tcorr_scene_coll_id = <<>>
    /\ tmax_mask = <<>>
    /\ export_crs = None
    /\ export_geo = <<>>
    /\ export_shape = <<>>
    /\ asset_list = {}
    /\ tasks = <<>>
    /\ start_date = 0
    /\ end_date = 0
    /\ wrs2_info = <<>>
    /\ tile_i = 1
    /\ image_queue = <<>>
    /\ task = <<>>
    /\ calls = <<>>
    /\ scenes_seen = <<>>

\* ----------------------------------------------------- main(): set-up
\* ExportGeometry without the branch of lines 147-151: the Tmax image's
\* own grid for every source
ExportGeometryDerived(tmax_name, info, cell_size) ==
    LET geo == info.crs_transform
        shape == info.dimensions
    IN  IF cell_size = <<>>
        THEN [crs |-> info.crs, geo |-> geo, shape |-> shape]
        ELSE LET export_cs == cell_size[1]
             IN  [crs |-> info.crs,
                  geo |-> <<export_cs, 0, geo[3], 0, -export_cs, geo[6]>>,
                  shape |-> <<CeilAbsDiv(shape[1] * geo[1], export_cs),
                              CeilAbsDiv(shape[2] * geo[5], export_cs)>>]

\* the export grid: the Tmax image's own, or the fixed DAYMET one, then
\* resampled to the cell size the INI file gives
ExportGeometry(tmax_name, info, cell_size) ==
    LET daymet == HasDaymet(tmax_name)
        geo == IF daymet THEN <<1000, 0, -1999750, 0, -1000, 1109500>>
               ELSE info.crs_transform
        shape == IF daymet THEN <<4500, 3000>> ELSE info.dimensions
    IN  IF cell_size = <<>>
        THEN [crs |-> info.crs, geo |-> geo, shape |-> shape]
        ELSE LET export_cs == cell_size[1]
             IN  [crs |-> info.crs,
                  geo |-> <<export_cs, 0, geo[3], 0, -export_cs, geo[6]>>,
                  shape |-> <<CeilAbsDiv(shape[1] * geo[1], export_cs),
                              CeilAbsDiv(shape[2] * geo[5], export_cs)>>]

\* lines 45-213: read the INI file, check the Tmax source, build the
\* reference mask and the export grid. A source name without MEDIAN raises
\* ValueError (line 139). The names of the model are never exactly CIMIS
\* or DAYMET, so the branches of lines 89-99 are not taken.
Setup ==
    /\ pc = "setup"
    /\ IF ~HasMedian(ini.tmax_source)
       THEN /\ pc' = "error"
            /\ tcorr_scene_coll_id' =
                  TcorrSceneCollId(ini.export_coll, ini.tmax_source)
            /\ UNCHANGED <<tmax_mask, export_crs, export_geo, export_shape>>
       ELSE LET g == ExportGeometry(ini.tmax_source, tmax_first.info,
                                    ini.cell_size)
            IN  /\ pc' = "collection"
                /\ tcorr_scene_coll_id' =
                      TcorrSceneCollId(ini.export_coll, ini.tmax_source)
                /\ tmax_mask' = Multiply(tmax_first.band, 0)
                /\ export_crs' = g.crs
                /\ export_geo' = g.geo
                /\ export_shape' = g.shape
    /\ UNCHANGED <<config, clock, remote, world, snapshot, dates, loop,
                   task, calls, scenes_seen>>

\* lines 215-219: build the export collection when it does not exist
EnsureCollection ==
    /\ pc = "collection"
    /\ IF tcorr_scene_coll_id \notin ee_collections
       THEN /\ ee_collections' = ee_collections \cup {tcorr_scene_coll_id}
            /\ calls' = Append(calls, [op |-> "createAsset",
                                       arg |-> tcorr_scene_coll_id])
       ELSE UNCHANGED <<ee_collections, calls>>
    /\ pc' = "snapshot"
    /\ UNCHANGED <<config, clock, ee_assets, ee_tasks, world, setup,
                   snapshot, dates, loop, task, scenes_seen>>

\* utils.get_ee_assets(coll_id): the ids of the collection's images
GetEeAssets(assets, coll_id) == {a \in assets : a[1] = coll_id}

\* utils.get_ee_tasks(): the pending tasks, keyed by description
GetEeTasks(pending) ==
    [d \in {t.description : t \in pending} |->
        [id |-> (CHOOSE t \in pending : t.description = d).id]]

\* lines 221-231: fetch the asset list and the task list
GetSnapshot ==
    /\ pc = "snapshot"
    /\ asset_list' = GetEeAssets(ee_assets, tcorr_scene_coll_id)
    /\ tasks' = GetEeTasks(ee_tasks)
    /\ pc' = "dates"
    /\ UNCHANGED <<config, clock, remote, world, setup, dates, loop,
                   task, calls, scenes_seen>>

\* ClampEnd without the clamp
ClampEndNever(end_dt, now1, now2) == end_dt

\* lines 267-270: an end date not before now becomes now
ClampEnd(end_dt, now1, now2) ==
    IF end_dt >= now1 THEN now2 ELSE end_dt

\* ClampStart without the clamp
ClampStartNever(start_dt) == start_dt

\* lines 271-274: a start date before Landsat 5 becomes 1984-03-23
ClampStart(start_dt) ==
    IF start_dt < Strptime(LandsatStart) THEN Strptime(LandsatStart)
    ELSE start_dt

\* lines 263-281: the date range of the run; the clock may tick between
\* the two calls of datetime.datetime.today()
ParseDates ==
    /\ pc = "dates"
    /\ \E now2 \in {clock, clock + 1} :
          LET end_dt == ClampEnd(Strptime(ini.end_date), clock, now2)
              start_dt == ClampStart(Strptime(ini.start_date))
          IN  /\ clock' = IF Strptime(ini.end_date) >= clock
                          THEN now2 ELSE clock
              /\ start_date' = Strftime(start_dt)
              /\ end_date' = Strftime(end_dt)
              /\ pc' = IF start_dt > end_dt THEN "error" ELSE "tiles"
    /\ UNCHANGED <<config, remote, world, setup, snapshot, loop,
                   task, calls, scenes_seen>>

\* the loop position after the tile at index i
AfterTile(i) == IF i + 1 > Len(wrs2_info) THEN "done" ELSE "tile"

\* lines 284-292: the tiles the WRS2 catalog returns for the export area
\* and the tile list, in the catalog's order
EnumerateTiles ==
    /\ pc = "tiles"
    /\ \E S \in SUBSET (1..MaxTiles) :
          /\ wrs2_info' = SubsequenceAt(Wrs2Catalog, S)
          /\ pc' = IF S = {} THEN "done" ELSE "tile"
    /\ tile_i' = 1
    /\ calls' = Append(calls, [op |-> "wrs2_coll.getInfo"])
    /\ UNCHANGED <<config, clock, remote, world, setup, snapshot, dates,
                   image_queue, task, scenes_seen>>

\* lines 307-322: the scene collection built for the tile
CollectionCall(wrs2_tile) ==
    [op |-> "Collection", start_date |-> start_date, end_date |-> end_date,
     wrs2_path |-> Wrs2Path(wrs2_tile), wrs2_row |-> Wrs2Row(wrs2_tile)]

\* lines 326-327, 332: the image id list arrives and is sorted
TileListed ==
    /\ \E image_id_list \in SeqsUpTo(DOMAIN landsat, MaxList) :
          /\ calls' = calls \o <<CollectionCall(wrs2_info[tile_i]),
                                 [op |-> "getInfo", ok |-> TRUE,
                                  list |-> image_id_list]>>
          /\ image_queue' = Sorted(image_id_list, reverse_flag)
    /\ pc' = "scene"
    /\ UNCHANGED tile_i

\* TileSkipped without the try/except: the error ends the run
TileSkippedAbort ==
    /\ calls' = calls \o <<CollectionCall(wrs2_info[tile_i]),
                           [op |-> "getInfo", ok |-> FALSE, list |-> <<>>]>>
    /\ pc' = "error"
    /\ UNCHANGED <<tile_i, image_queue>>

\* lines 328-330: the image id list cannot be read; the tile is skipped
TileSkipped ==
    /\ calls' = calls \o <<CollectionCall(wrs2_info[tile_i]),
                           [op |-> "getInfo", ok |-> FALSE, list |-> <<>>]>>
    /\ tile_i' = tile_i + 1
    /\ pc' = AfterTile(tile_i)
    /\ UNCHANGED image_queue

\* lines 296-332: the head of the tile loop
TileQuery ==
    /\ pc = "tile"
    /\ TileListed \/ TileSkipped
    /\ UNCHANGED <<config, clock, remote, world, setup, snapshot, dates,
                   wrs2_info, task, scenes_seen>>

\* lines 434-436: the tile's scenes are done; utils.delay_task, next tile
TileEnd ==
    /\ pc = "scene"
    /\ image_queue = <<>>
    /\ tile_i' = tile_i + 1
    /\ pc' = AfterTile(tile_i)
    /\ UNCHANGED <<config, clock, remote, world, setup, snapshot, dates,
                   wrs2_info, image_queue, task, calls, scenes_seen>>

\* ------------------------------------------------ main(): the scene loop
\* Decide without the "elif asset_id in asset_list" branch
DecideNoAssetCheck(overwrite, has_task, has_asset) ==
    [cancel |-> overwrite /\ has_task,
     delete |-> overwrite /\ has_asset,
     build |-> overwrite \/ ~has_task]

\* Decide without the "if export_id in tasks.keys()" branch of the else
DecideNoTaskCheck(overwrite, has_task, has_asset) ==
    [cancel |-> overwrite /\ has_task,
     delete |-> overwrite /\ has_asset,
     build |-> overwrite \/ ~has_asset]

\* lines 358-373: what the overwrite flag, the task list and the asset
\* list decide for a scene
Decide(overwrite, has_task, has_asset) ==
    [cancel |-> overwrite /\ has_task,
     delete |-> overwrite /\ has_asset,
     build |-> overwrite \/ (~has_task /\ ~has_asset)]

\* lines 378-381: the statistic and the count, 0 when the result omits them
TStats(tcorr_stats) ==
    Combine(tcorr_stats, [tcorr_p5 |-> 0, tcorr_count |-> 0])

\* lines 384-393: the Tcorr raster of a scene
OutputImage(mask, t_stats, geometry, min_pixel_count) ==
    LET tcorr == t_stats.tcorr_p5
        count == t_stats.tcorr_count
        tcorr_img == IF count > min_pixel_count
                     THEN Add(mask, tcorr)
                     ELSE UpdateMaskConst(mask, 0)
        output_img == Clip(tcorr_img, geometry)
    IN  UpdateMask(output_img, Unmask(output_img, 0))

\* lines 395-417: the properties set on the output (those computed here)
Properties(image_id, export_dt, t_stats, wrs2_tile) ==
    [coll_id |-> image_id[1],
     count |-> t_stats.tcorr_count,
     date_ingested |-> Strftime(clock),
     date |-> Strftime(export_dt),
     model_name |-> "SSEBOP",
     month |-> (Strftime(export_dt) \div 100) % 100,
     scene_id |-> SceneId(image_id),
     tcorr |-> t_stats.tcorr_p5,
     wrs2_path |-> Wrs2Path(wrs2_tile),
     wrs2_row |-> Wrs2Row(wrs2_tile),
     wrs2_tile |-> wrs2_tile,
     year |-> Strftime(export_dt) \div 10000]

\* lines 375-429: the export task of a scene
ExportTask(image_id, export_dt, export_id, asset_id, wrs2_tile) ==
    LET t_stats == TStats(landsat[image_id].tcorr_stats)
    IN  [image |-> [band |-> OutputImage(tmax_mask, t_stats,
                                         landsat[image_id].geometry,
                                         ini.min_pixel_count),
                    properties |-> Properties(image_id, export_dt, t_stats,
                                              wrs2_tile)],
         description |-> export_id,
         assetId |-> asset_id,
         crs |-> export_crs,
         crsTransform |-> export_geo,
         dimensions |-> export_shape]

\* how the Earth Engine calls of one scene can end: a cancel of a task
\* that is no longer pending, or a delete of an asset that is no longer
\* there, may raise
Outcomes(d, export_id, asset_id) ==
    {"ok"}
    \cup (IF d.cancel /\ tasks[export_id].id \notin {t.id : t \in ee_tasks}
          THEN {"cancelTask raises"} ELSE {})
    \cup (IF d.delete /\ asset_id \notin ee_assets
          THEN {"deleteAsset raises"} ELSE {})

\* lines 333-432: one scene of the tile, without the frame of the lists
\* fetched before the loop
SceneBody ==
    /\ pc = "scene"
    /\ image_queue # <<>>
    /\ LET image_id == Head(image_queue)
           scene_id == SceneId(image_id)
           parsed == StrptimeYmd(DatePart(scene_id))
           export_id == ExportId(ini.tmax_source, scene_id)
           asset_id == AssetId(tcorr_scene_coll_id, scene_id)
           d == Decide(overwrite_flag, export_id \in DOMAIN tasks,
                       asset_id \in asset_list)
           cancel == IF d.cancel
                     THEN <<[op |-> "cancelTask",
                             arg |-> tasks[export_id].id]>>
                     ELSE <<>>
           delete == IF d.delete
                     THEN <<[op |-> "deleteAsset", arg |-> asset_id]>>
                     ELSE <<>>
           new == ExportTask(image_id, parsed.dt, export_id, asset_id,
                             wrs2_info[tile_i])
       IN  IF parsed.err
           THEN \* line 336 raises ValueError
                /\ pc' = "error"
                /\ scenes_seen' = Append(scenes_seen,
                      [tile |-> tile_i, image_id |-> image_id,
                       ids |-> <<>>])
                /\ UNCHANGED <<remote, image_queue, task, calls>>
           ELSE
             /\ scenes_seen' = Append(scenes_seen,
                   [tile |-> tile_i, image_id |-> image_id,
                    ids |-> <<export_id, asset_id>>])
             /\ \E outcome \in Outcomes(d, export_id, asset_id) :
                  CASE outcome = "cancelTask raises" ->
                         /\ pc' = "error"
                         /\ calls' = calls \o cancel
                         /\ UNCHANGED <<remote, image_queue, task>>
                    [] outcome = "deleteAsset raises" ->
                         /\ pc' = "error"
                         /\ calls' = calls \o cancel \o delete
                         /\ ee_tasks' = IF d.cancel
                               THEN {t \in ee_tasks :
                                       t.id # tasks[export_id].id}
                               ELSE ee_tasks
                         /\ UNCHANGED <<ee_collections, ee_assets,
                                        image_queue, task>>
                    [] OTHER ->
                         /\ pc' = "scene"
                         /\ ee_tasks' = IF d.cancel
                               THEN {t \in ee_tasks :
                                       t.id # tasks[export_id].id}
                               ELSE ee_tasks
                         /\ ee_assets' = IF d.delete
                               THEN ee_assets \ {asset_id} ELSE ee_assets
                         /\ calls' = calls \o cancel \o delete \o
                               (IF d.build
                                THEN <<[op |-> "toAsset", arg |-> new]>>
                                ELSE <<>>)
                         /\ task' = IF d.build THEN <<new>> ELSE task
                         /\ image_queue' = Tail(image_queue)
                         /\ UNCHANGED ee_collections
    /\ UNCHANGED <<config, clock, world, setup, dates, wrs2_info, tile_i>>

\* SceneStep with the two lists refreshed after the remote calls
SceneStepLive ==
    /\ SceneBody
    /\ asset_list' = asset_list \cap ee_assets'
    /\ tasks' = [d \in {x \in DOMAIN tasks :
                          tasks[x].id \in {t.id : t \in ee_tasks'}} |->
                    tasks[d]]

\* lines 333-432: one scene of the tile
SceneStep ==
    /\ SceneBody
    /\ UNCHANGED <<asset_list, tasks>>

Next ==
    \/ Setup
    \/ EnsureCollection
    \/ GetSnapshot
    \/ ParseDates
    \/ EnumerateTiles
    \/ TileQuery
    \/ SceneStep
    \/ TileEnd

\* ---------------------------------------------------- specifications
\* The scene loop: every flag, every asset list and task list over the two
\* scenes, every tile list and every scene list, one valid and one invalid
\* date range.
Init ==
    InitWith(BOOLEAN, BOOLEAN,
             {IniFile(t, 20200101, e, <<>>) :
                 t \in {"DAYMET_MEDIAN_V2", "topowx_median_v0"},
                 e \in {20200131, 20191201}},
             {20261103 * TicksPerDay},
             {ImageA, ImageB},
             {[tcorr_p5 |-> 2, tcorr_count |-> 5000]},
             {Pixels},
             {Pixels},
             BOOLEAN)

Spec == Init /\ [][Next]_vars

\* The date range: start dates before, at and after the Landsat boundary
\* and after the clock, end dates in the past, today, tomorrow and later,
\* every time of day, with and without the export collection, a supported
\* and an unsupported Tmax source.
InitDates ==
    InitWith(BOOLEAN, {FALSE},
             {IniFile(t, b, e, <<>>) :
                 t \in {"topowx_median_v0", "DAYMET_V3"},
                 b \in {19800101, 19840323, 20200101, 20310101},
                 e \in {19790101, 20200131, 20261103, 20261104, 20300101}},
             {20261103 * TicksPerDay + k : k \in 0..(TicksPerDay - 1)},
             {ImageA},
             {[tcorr_p5 |-> 2, tcorr_count |-> 5000]},
             {Pixels},
             {Pixels},
             BOOLEAN)

SpecDates == InitDates /\ [][Next]_vars

\* The output raster: every statistic and count around the threshold,
\* present or omitted, every footprint and every Tmax mask.
InitImage ==
    InitWith(BOOLEAN, {FALSE},
             {IniFile("topowx_median_v0", 20200101, 20200131, <<>>)},
             {20261103 * TicksPerDay},
             {ImageA},
             AnyStats({500, 1000, 5000}, {0, 2}),
             SUBSET Pixels,
             SUBSET Pixels,
             {TRUE})

SpecImage == InitImage /\ [][Next]_vars

\* The scene order: both orders, every list over scenes of one path and
\* row from two collections (Landsat 8 and Landsat 7), every asset list and
\* task list.
InitOrder ==
    InitWith({FALSE}, BOOLEAN,
             {IniFile("topowx_median_v0", 20170101, 20171231, <<>>)},
             {20261103 * TicksPerDay},
             {ImageA, ImageC, ImageD},
             {[tcorr_p5 |-> 2, tcorr_count |-> 5000]},
             {Pixels},
             {Pixels},
             {TRUE})

SpecOrder == InitOrder /\ [][Next]_vars

\* The export grid: DAYMET and other Tmax sources, in upper and lower
\* case, with no cell size, the grid's own cell size, one that divides the
\* extent and one that does not.
InitGrid ==
    InitWith(BOOLEAN, {FALSE},
             {IniFile(t, 20200101, 20200131, c) :
                 t \in {"DAYMET_MEDIAN_V2", "daymet_median_v2",
                        "topowx_median_v0"},
                 c \in {<<>>, <<500>>, <<700>>, <<1000>>}},
             {20261103 * TicksPerDay},
             {ImageA},
             {[tcorr_p5 |-> 2, tcorr_count |-> 5000]},
             {Pixels},
             {Pixels},
             BOOLEAN)

SpecGrid == InitGrid /\ [][Next]_vars

\* ----------------------------------------------------------- the claims
\* the positions in calls of the jobs built
ToAssetCalls == {i \in 1..Len(calls) : calls[i].op = "toAsset"}

\* the positions in calls of the scene collection queries
CollectionCalls == {i \in 1..Len(calls) : calls[i].op = "Collection"}

\* the iterations of the scene loop that computed their ids
WithIds == {i \in 1..Len(scenes_seen) : Len(scenes_seen[i].ids) = 2}

\* C1: with overwrite_flag false, no export job is built (no
\* Export.image.toAsset call) for an asset id that is in the asset list
\* fetched before the loop.
C1_NoJobForExistingAsset ==
    ~overwrite_flag =>
        \A i \in ToAssetCalls :
            calls[i].arg.assetId \notin asset_list

\* a finished run without overwrite that met a scene whose asset exists
\* and whose task is not pending
C1_Witness ==
    /\ ~overwrite_flag
    /\ pc = "done"
    /\ \E i \in WithIds :
          /\ scenes_seen[i].ids[2] \in asset_list
          /\ scenes_seen[i].ids[1] \notin DOMAIN tasks

\* C9: with overwrite_flag false nothing is cancelled or deleted, and a job
\* is built only for a scene whose export id is not a pending task and whose
\* asset id is not an existing asset.
C9_SkipPendingOrExisting ==
    ~overwrite_flag =>
        /\ \A i \in 1..Len(calls) :
              calls[i].op \notin {"cancelTask", "deleteAsset"}
        /\ \A i \in ToAssetCalls :
              /\ calls[i].arg.description \notin DOMAIN tasks
              /\ calls[i].arg.assetId \notin asset_list

\* a finished run without overwrite that met a scene with a pending task
\* and an existing asset
C9_Witness ==
    /\ ~overwrite_flag
    /\ pc = "done"
    /\ \E i \in WithIds :
          /\ scenes_seen[i].ids[1] \in DOMAIN tasks
          /\ scenes_seen[i].ids[2] \in asset_list

\* C4: the export id and the asset id of every scene the loop handles are
\* 'tcorr_scene_<product>_<scene_id>' and '<collection>/<scene_id>', with
\* <product> the lower-case Tmax source name and <collection> the export
\* collection of the run; two iterations on the same scene id get the same
\* ids whatever the tile, and every job built carries them.
C4_IdsFromProductAndScene ==
    LET product == Lower(ini.tmax_source)
        collection == <<ini.export_coll, product, "scene">>
    IN  /\ \A i \in WithIds :
              LET e == scenes_seen[i]
              IN  /\ e.ids[1] = <<"tcorr_scene", product, Last(e.image_id)>>
                  /\ e.ids[2] = <<collection, Last(e.image_id)>>
        /\ \A i, j \in WithIds :
              Last(scenes_seen[i].image_id) = Last(scenes_seen[j].image_id)
                  => scenes_seen[i].ids = scenes_seen[j].ids
        /\ \A i \in ToAssetCalls :
              \E k \in WithIds :
                  /\ calls[i].arg.description = scenes_seen[k].ids[1]
                  /\ calls[i].arg.assetId = scenes_seen[k].ids[2]

\* the same scene handled under two tiles, with an upper-case source name
C4_Witness ==
    /\ ini.tmax_source # Lower(ini.tmax_source)
    /\ \E i, j \in WithIds :
          /\ scenes_seen[i].tile # scenes_seen[j].tile
          /\ scenes_seen[i].image_id = scenes_seen[j].image_id
    /\ ToAssetCalls # {}

\* the last iteration of the scene loop is cut short when the run aborts
Completed(i) == i < Len(scenes_seen) \/ pc # "error"

\* what the lists fetched before the loop decide for a scene id
DecisionFor(scene_id) ==
    [cancel |-> overwrite_flag /\
                ExportId(ini.tmax_source, scene_id) \in DOMAIN tasks,
     delete |-> overwrite_flag /\
                AssetId(tcorr_scene_coll_id, scene_id) \in asset_list,
     build |-> overwrite_flag \/
               (/\ ExportId(ini.tmax_source, scene_id) \notin DOMAIN tasks
                /\ AssetId(tcorr_scene_coll_id, scene_id) \notin asset_list)]

\* the calls of the run for a scene id, by kind
CancelsOf(scene_id) ==
    {i \in 1..Len(calls) :
        /\ calls[i].op = "cancelTask"
        /\ calls[i].arg = TaskId(ExportId(ini.tmax_source, scene_id))}

DeletesOf(scene_id) ==
    {i \in 1..Len(calls) :
        /\ calls[i].op = "deleteAsset"
        /\ calls[i].arg = AssetId(tcorr_scene_coll_id, scene_id)}

BuildsOf(scene_id) ==
    {i \in ToAssetCalls :
        calls[i].arg.assetId = AssetId(tcorr_scene_coll_id, scene_id)}

\* the completed iterations of the scene loop on a scene id
IterationsOf(scene_id) ==
    {i \in WithIds : Completed(i) /\ Last(scenes_seen[i].image_id) = scene_id}

\* the scene ids of the catalog
SceneIds == {Last(image_id) : image_id \in DOMAIN landsat}

\* C10: the asset list and the task list change only when they are fetched,
\* before the first tile; and what is done for a scene is what those two
\* lists decide, every time the scene comes up: a job each time when they
\* say build, never when they say skip, a delete and a cancel each time
\* when they say so and never otherwise.
C10_SnapshotReadOnly ==
    /\ [][pc # "snapshot" => (asset_list' = asset_list /\ tasks' = tasks)]_vars
    /\ [](\A scene_id \in SceneIds :
            LET d == DecisionFor(scene_id)
                n == Cardinality(IterationsOf(scene_id))
            IN  /\ Cardinality(BuildsOf(scene_id)) = IF d.build THEN n ELSE 0
                /\ Cardinality(DeletesOf(scene_id)) >= IF d.delete THEN n ELSE 0
                /\ Cardinality(CancelsOf(scene_id)) >= IF d.cancel THEN n ELSE 0
                /\ ~d.delete => DeletesOf(scene_id) = {}
                /\ ~d.cancel => CancelsOf(scene_id) = {})

\* a scene whose asset was deleted and whose task was cancelled is handled
\* a second time, and deleted, cancelled and built again
C10_Witness ==
    \E scene_id \in SceneIds :
        /\ Cardinality(IterationsOf(scene_id)) = 2
        /\ Cardinality(DeletesOf(scene_id)) = 2
        /\ Cardinality(CancelsOf(scene_id)) = 2
        /\ Cardinality(BuildsOf(scene_id)) = 2

\* a step of the tile loop in which the image id list could not be read
SkipStep ==
    /\ pc = "tile"
    /\ Len(calls') = Len(calls) + 2
    /\ calls'[Len(calls')].op = "getInfo"
    /\ ~calls'[Len(calls')].ok

\* C8: when the image id list of a tile cannot be read, the step only makes
\* the query and moves to the next tile: nothing is cancelled, deleted or
\* built, no scene is handled, the run does not abort and everything the
\* later tiles read is as it was; and a run that ends normally has queried
\* every tile of the sequence, in order.
C8_TileSkipIsLocal ==
    /\ [][SkipStep =>
            /\ calls'[Len(calls') - 1] = CollectionCall(wrs2_info[tile_i])
            /\ SubSeq(calls', 1, Len(calls)) = calls
            /\ tile_i' = tile_i + 1
            /\ pc' = (IF tile_i < Len(wrs2_info) THEN "tile" ELSE "done")
            /\ UNCHANGED <<config, clock, remote, world, setup, snapshot,
                           dates, wrs2_info, image_queue, task,
                           scenes_seen>>]_vars
    /\ [](pc = "done" =>
            LET q == CollectionCalls
            IN  /\ Cardinality(q) = Len(wrs2_info)
                /\ \A k \in 1..Len(wrs2_info) :
                      \E i \in q :
                          /\ Cardinality({j \in q : j <= i}) = k
                          /\ calls[i].wrs2_row = Wrs2Row(wrs2_info[k])
                          /\ calls[i].wrs2_path = Wrs2Path(wrs2_info[k]))

\* a finished run in which a tile was skipped and a later tile got a job
C8_Witness ==
    /\ pc = "done"
    /\ \E i, j \in 1..Len(calls) :
          /\ i < j
          /\ calls[i].op = "getInfo"
          /\ ~calls[i].ok
          /\ calls[j].op = "toAsset"

\* C5: when the configured end date is later than the current date, every
\* scene collection of the run is queried with the current date as its end
\* date.
C5_FutureEndIsToday ==
    ini.end_date > Strftime(clock) =>
        \A i \in CollectionCalls :
            calls[i].end_date = Strftime(clock)

\* a tile queried in a run whose configured end date is in the future
C5_Witness ==
    /\ ini.end_date > Strftime(clock)
    /\ CollectionCalls # {}

\* C6: every scene collection of the run is queried with 1984-03-23 as its
\* start date when the configured start date is earlier, and with the
\* configured start date otherwise.
C6_EarlyStartIsLandsatStart ==
    \A i \in CollectionCalls :
        calls[i].start_date =
            IF ini.start_date < 19840323 THEN 19840323 ELSE ini.start_date

\* a tile queried in a run whose configured start date is before 1984-03-23
C6_Witness ==
    /\ ini.start_date < 19840323
    /\ CollectionCalls # {}

\* C7: a run whose configured start date is after its configured end date
\* never gets past the date check, and makes no call that creates an asset,
\* lists the tiles, cancels a task, deletes an asset or builds a job.
C7_StartAfterEndAbortsClean ==
    ini.start_date > ini.end_date =>
        /\ pc \notin {"tiles", "tile", "scene", "done"}
        /\ \A i \in 1..Len(calls) :
              calls[i].op \notin {"createAsset", "wrs2_coll.getInfo",
                                  "Collection", "cancelTask", "deleteAsset",
                                  "toAsset"}

\* the image of the catalog with this scene id
ImageOf(scene_id) == CHOOSE image_id \in DOMAIN landsat : Last(image_id) = scene_id

\* C3: the raster of the job built last is empty (no valid pixel) when the
\* scene's pixel count (0 when omitted) is at or below min_pixel_count, and
\* is the reference mask plus the statistic (0 when omitted), clipped to the
\* scene footprint, when the count is above it.
C3_OutputMaskedOrMaskPlusTcorr ==
    task # <<>> =>
        LET scene == landsat[ImageOf(task[1].image.properties.scene_id)]
            raw == scene.tcorr_stats
            count == IF "tcorr_count" \in DOMAIN raw THEN raw.tcorr_count ELSE 0
            tcorr == IF "tcorr_p5" \in DOMAIN raw THEN raw.tcorr_p5 ELSE 0
            band == task[1].image.band
        IN  IF count <= ini.min_pixel_count
            THEN DOMAIN band = {}
            ELSE band = [p \in DOMAIN tmax_mask \cap scene.geometry |->
                            tmax_mask[p] + tcorr]

\* the scenes the run was given: the image id lists that were read
Listed ==
    UNION {Range(calls[i].list) :
              i \in {j \in 1..Len(calls) :
                        calls[j].op = "getInfo" /\ calls[j].ok}}

\* C2: when a run with overwrite_flag true has ended, every scene it was
\* given whose export id is a pending task and whose asset exists had its
\* task cancelled exactly once and its asset deleted exactly once, both
\* before a job was built for it, and a job was built for it.
C2_OverwriteOnceAndResubmit ==
    (overwrite_flag /\ pc \in {"done", "error"}) =>
        \A image_id \in Listed :
            LET scene_id == Last(image_id)
            IN  (/\ ExportId(ini.tmax_source, scene_id) \in DOMAIN tasks
                 /\ AssetId(tcorr_scene_coll_id, scene_id) \in asset_list)
                => /\ Cardinality(CancelsOf(scene_id)) = 1
                   /\ Cardinality(DeletesOf(scene_id)) = 1
                   /\ BuildsOf(scene_id) # {}
                   /\ \A b \in BuildsOf(scene_id) :
                         \A x \in CancelsOf(scene_id) \cup DeletesOf(scene_id) :
                             x < b


\* the acquisition date of the scene of iteration i: the last part of its
\* scene id, YYYYMMDD
AcquisitionDate(i) == ToInt(Last(SceneId(scenes_seen[i].image_id)))

\* the scene of iteration i lies on the tile it was listed for
OnItsTile(i) ==
    LET wrs2_tile == wrs2_info[scenes_seen[i].tile]
    IN  SceneId(scenes_seen[i].image_id)[2] =
            SubSeq(wrs2_tile, 2, 4) \o SubSeq(wrs2_tile, 6, 8)

\* two iterations of the same tile, the first before the second
SameTilePairs ==
    {p \in (1..Len(scenes_seen)) \X (1..Len(scenes_seen)) :
        /\ p[1] < p[2]
        /\ scenes_seen[p[1]].tile = scenes_seen[p[2]].tile
        /\ OnItsTile(p[1])
        /\ OnItsTile(p[2])}

\* C11: within a tile, with reverse_flag false no scene is processed after
\* a scene with a later acquisition date, and with reverse_flag true none
\* after a scene with an earlier one, also when the tile's list mixes
\* scenes of several collections.
C11_ScenesInDateOrder ==
    \A p \in SameTilePairs :
        IF reverse_flag
        THEN AcquisitionDate(p[1]) >= AcquisitionDate(p[2])
        ELSE AcquisitionDate(p[1]) <= AcquisitionDate(p[2])

\* the run's Tmax source name selects the fixed continental grid
DaymetRun == ini.tmax_source \in {"DAYMET_MEDIAN_V2", "daymet_median_v2"}

\* n is the number of cells of size cs that cover the length, rounded up
CoversRoundedUp(n, cs, length) ==
    /\ n * cs >= length
    /\ (n - 1) * cs < length

\* C12 as stated: with a DAYMET source every export job carries the fixed
\* transform [1000, 0, -1999750, 0, -1000, 1109500] and the shape
\* 4500x3000, whatever else is configured, a cell_size included.
C12_DaymetGridUnconditional ==
    DaymetRun =>
        \A i \in ToAssetCalls :
            /\ calls[i].arg.crsTransform =
                   <<1000, 0, -1999750, 0, -1000, 1109500>>
            /\ calls[i].arg.dimensions = <<4500, 3000>>

\* C12, amended: with a DAYMET source every export job carries the fixed
\* grid in place of the Tmax image's own: without a cell_size exactly the
\* transform [1000, 0, -1999750, 0, -1000, 1109500] and the shape
\* 4500x3000; with a cell_size cs the same origin and extent at that cell
\* size, transform [cs, 0, -1999750, 0, -cs, 1109500] and the shape that
\* covers 4500000 x 3000000 rounded up.
C12_DaymetGridThenCellSize ==
    DaymetRun =>
        \A i \in ToAssetCalls :
            IF ini.cell_size = <<>>
            THEN /\ calls[i].arg.crsTransform =
                        <<1000, 0, -1999750, 0, -1000, 1109500>>
                 /\ calls[i].arg.dimensions = <<4500, 3000>>
            ELSE LET cs == ini.cell_size[1]
                     shape == calls[i].arg.dimensions
                 IN  /\ calls[i].arg.crsTransform =
                            <<cs, 0, -1999750, 0, -cs, 1109500>>
                     /\ Len(shape) = 2
                     /\ CoversRoundedUp(shape[1], cs, 4500000)
                     /\ CoversRoundedUp(shape[2], cs, 3000000)

\* an export job of a DAYMET run whose cell size does not divide the extent
C12_Witness ==
    /\ DaymetRun
    /\ ini.cell_size = <<700>>
    /\ \E i \in ToAssetCalls : calls[i].arg.dimensions = <<6429, 4286>>

====
